---- MODULE Spec2Model ----
(***************************************************************************)
(* imgopt: the event loop of run_app (src/main.rs 47-144) and the image    *)
(* processing step process_image (src/main.rs 210-340), with the dimension *)
(* calculation of lines 268-286 as the operator NewDimensions.             *)
(*                                                                         *)
(* A string is a sequence of characters; a character is a one-character    *)
(* TLA+ string.                                                            *)
(***************************************************************************)
EXTENDS Naturals, Integers, Sequences, FiniteSets

VARIABLES
    input_buffer,     \* run_app: let mut input_buffer = String::new()
    running,          \* run_app: "loop" inside the loop, else how it was left
    last,             \* the event handled last and the process_image call it made
    proc,             \* what the last process_image call did
    overflow_checks   \* the build: TRUE when compiled with overflow checks (debug)

vars == <<input_buffer, running, last, proc, overflow_checks>>

----------------------------------------------------------------------------
(* Bounds of the model *)

\* the dimensions 1..SmallDims are all tried
SmallDims == 8
\* so are the dimensions within DimSpread of each landmark (480, 720, ...)
DimSpread == 3
\* a typed path opens and closes with at most this many quote characters
MaxQuoteRun == 2

----------------------------------------------------------------------------
(* u32 arithmetic *)
(* TLC's integers end at 2^31 - 1, below the u32 range, so a product is     *)
(* kept in two limbs: [hi, lo] stands for hi * 2^16 + lo, 0 <= lo < 2^16.   *)
(* It fits u32 iff hi < 2^16.                                               *)

MIN_DIMENSION == 480
MAX_DIMENSION == 720

LIMB == 2 ^ 16

Max(a, b) == IF a >= b THEN a ELSE b

\* the exact product a * b, for a < 2^31 and b < 2^15
WideMul(a, b) ==
    LET low == (a % LIMB) * b
    IN  [hi |-> (a \div LIMB) * b + (low \div LIMB), lo |-> low % LIMB]

WideLeq(x, y) == x.hi < y.hi \/ (x.hi = y.hi /\ x.lo <= y.lo)

\* floor(p / c) for a wide p and c > 0, the quotient known to be at most qmax
WideDiv(p, c, qmax) ==
    IF p.hi < LIMB \div 2
    THEN (p.hi * LIMB + p.lo) \div c
    ELSE CHOOSE q \in 0..qmax :
            /\ WideLeq(WideMul(c, q), p)
            /\ q = qmax \/ ~WideLeq(WideMul(c, q + 1), p)

\* a * b on u32: with overflow checks an overflowing product panics
\* (ok = FALSE), without them it wraps modulo 2^32
MulU32(a, b, checks) ==
    LET p == WideMul(a, b)
    IN  IF p.hi < LIMB THEN [ok |-> TRUE, v |-> p]
        ELSE IF checks THEN [ok |-> FALSE, v |-> p]
        ELSE [ok |-> TRUE, v |-> [hi |-> p.hi % LIMB, lo |-> p.lo]]

\* (a * b) / c as the code evaluates it on u32, for a <= c (the code scales
\* the shorter side by the longer one, so the quotient is at most b);
\* division by zero panics in every build
ScaleU32(a, b, c, checks) ==
    LET m == MulU32(a, b, checks)
    IN  IF ~m.ok \/ c = 0 THEN [ok |-> FALSE, v |-> 0]
        ELSE [ok |-> TRUE, v |-> WideDiv(m.v, c, b)]

----------------------------------------------------------------------------
(* Strings: str::trim, str::trim_matches, str::ends_with, String::len *)

SQ == "'"
DQ == "\""
EAcute == "é"

\* char::is_whitespace, on the characters of the model
Whitespace == {" ", "\t"}

\* str::trim_matches: every leading and every trailing character in cs goes
TrimMatches(s, cs) ==
    LET keep == {i \in 1..Len(s) : s[i] \notin cs}
    IN  IF keep = {} THEN << >>
        ELSE SubSeq(s, CHOOSE i \in keep : \A j \in keep : i <= j,
                       CHOOSE i \in keep : \A j \in keep : i >= j)

\* str::trim
Trim(s) == TrimMatches(s, Whitespace)

\* a normalisation that trims the whitespace and leaves the quotes
PathOfMutNoUnquote(s) == Trim(s)

\* input_buffer.trim().trim_matches('\'').trim_matches('"')
PathOf(s) == TrimMatches(TrimMatches(Trim(s), {SQ}), {DQ})

\* str::ends_with
EndsWith(s, suffix) ==
    /\ Len(suffix) <= Len(s)
    /\ SubSeq(s, Len(s) - Len(suffix) + 1, Len(s)) = suffix

\* char::len_utf8, on the characters of the model
LenUtf8(c) == IF c = EAcute THEN 2 ELSE 1

RECURSIVE ByteLen(_)
\* String::len: the length in bytes
ByteLen(s) == IF s = << >> THEN 0 ELSE LenUtf8(Head(s)) + ByteLen(Tail(s))

\* the suffixes the auto-processing test names, lines 91-93
AutoExtensions ==
    { <<".", "p", "n", "g">>, <<".", "j", "p", "g">>, <<".", "j", "p", "e", "g">>,
      <<".", "P", "N", "G">>, <<".", "J", "P", "G">>, <<".", "J", "P", "E", "G">>,
      <<".", "g", "i", "f">>, <<".", "G", "I", "F">>, <<".", "w", "e", "b", "p">> }

\* path.ends_with(".png") || ... || path.ends_with(".webp")
HasAutoExtension(path) == \E e \in AutoExtensions : EndsWith(path, e)

\* a test that looks at the buffer and not at the character typed
QuoteCheckMutAnyChar(c, buffer) == ByteLen(buffer) > 2

\* if (c == '\'' || c == '"') && input_buffer.len() > 2, on the buffer after the push
QuoteCheck(c, buffer) == c \in {SQ, DQ} /\ ByteLen(buffer) > 2

----------------------------------------------------------------------------
(* process_image, "Calculate new dimensions" *)

\* a planner that forgets the sizes already within the bounds
TargetDimMutNoIdentity(max_dim) ==
    IF max_dim > MAX_DIMENSION THEN MAX_DIMENSION ELSE MIN_DIMENSION

\* let target_dim = if max_dim > MAX_DIMENSION { MAX_DIMENSION }
\*     else if max_dim < MIN_DIMENSION { MIN_DIMENSION } else { max_dim };
TargetDim(max_dim) ==
    IF max_dim > MAX_DIMENSION THEN MAX_DIMENSION
    ELSE IF max_dim < MIN_DIMENSION THEN MIN_DIMENSION
    ELSE max_dim

\* a planner with the comparison of the two sides turned around
NewDimensionsMutFlipped(width, height, checks) ==
    LET max_dim == Max(width, height)
        target_dim == TargetDim(max_dim)
    IN  IF target_dim # max_dim
        THEN IF width < height
             THEN LET s == ScaleU32(height, target_dim, width, checks)
                  IN  [ok |-> s.ok, new_width |-> target_dim, new_height |-> s.v]
             ELSE LET s == ScaleU32(width, target_dim, height, checks)
                  IN  [ok |-> s.ok, new_width |-> s.v, new_height |-> target_dim]
        ELSE [ok |-> TRUE, new_width |-> width, new_height |-> height]

\* let (new_width, new_height) = if target_dim != max_dim {
\*     if width > height { (target_dim, (height * target_dim) / width) }
\*     else { ((width * target_dim) / height, target_dim) }
\* } else { (width, height) };
\* ok = FALSE: the calculation panicked
NewDimensions(width, height, checks) ==
    LET max_dim == Max(width, height)
        target_dim == TargetDim(max_dim)
    IN  IF target_dim # max_dim
        THEN IF width > height
             THEN LET s == ScaleU32(height, target_dim, width, checks)
                  IN  [ok |-> s.ok, new_width |-> target_dim, new_height |-> s.v]
             ELSE LET s == ScaleU32(width, target_dim, height, checks)
                  IN  [ok |-> s.ok, new_width |-> s.v, new_height |-> target_dim]
        ELSE [ok |-> TRUE, new_width |-> width, new_height |-> height]

----------------------------------------------------------------------------
(* The inputs of the model *)

Near(x) == (x - DimSpread)..(x + DimSpread)

\* round sizes, the sizes of the worked examples, and the first shorter
\* sides whose product with 720 and with 480 leaves the u32 range
Landmarks ==
    {100, 200, 300, 500, 600, 1000, 1200,
     5965232, 5965233, 6000000, 7000000, 8947848, 8947849}

\* img.dimensions() of a decoded image: both sides positive
Dims == (1..SmallDims) \cup Near(MIN_DIMENSION) \cup Near(MAX_DIMENSION) \cup Landmarks

\* the sizes of the images submitted in the event loop: one that is scaled
\* up, one whose scaled height is 0, one whose product leaves the u32 range
LoopDims == {<<300, 200>>, <<1000, 1>>, <<7000000, 6000000>>}

\* runs of at most MaxQuoteRun quote characters
QuoteRuns == UNION {[1..n -> {SQ, DQ}] : n \in 0..MaxQuoteRun}

Png == <<".", "p", "n", "g">>
Txt == <<".", "t", "x", "t">>

\* the extensions typed: those the code names, other spellings of them, none
TypedExtensions ==
    AutoExtensions \cup
    { << >>, Txt, <<".", "W", "E", "B", "P">>,
      <<".", "P", "n", "g">>, <<".", "J", "p", "E", "g">> }

\* what the user sets out to type: a path of every extension in single
\* quotes, and an image and a text path in every combination of quote runs
Scripts ==
    { <<SQ>> \o stem \o ext \o <<SQ>> \o trail :
        stem \in {<<"/", "a">>, <<"f">>}, ext \in TypedExtensions,
        trail \in {<< >>, <<"x">>} }
    \cup { open \o <<"/", "a">> \o ext \o close :
             open \in QuoteRuns, ext \in {Png, Txt}, close \in QuoteRuns }
    \cup { <<" ", SQ, "/", "a">> \o ext \o <<SQ, " ">> : ext \in {Png, Txt} }
    \cup { <<EAcute, SQ>>, <<SQ, SQ, SQ>>, <<"c">>, <<"d">> }

Typeable == UNION { {SubSeq(s, 1, n) : n \in 0..Len(s)} : s \in Scripts }

Alphabet == UNION { {s[i] : i \in 1..Len(s)} : s \in Scripts }

\* the characters that continue a typed prefix
NextChars(buffer) == {c \in Alphabet : Append(buffer, c) \in Typeable}

\* the texts of the paste events
Pastes ==
    { << >>, <<SQ, " ", DQ>>, <<" ", SQ, DQ, SQ, " ">>, <<"d">> \o Txt,
      <<" ", DQ, SQ, "/", "a">> \o Png \o <<SQ, SQ, " ">> }

----------------------------------------------------------------------------
(* process_image *)

NoImage == [width |-> 0, height |-> 0, new_width |-> 0, new_height |-> 0]

\* what the world does during one process_image call and the redraw after it
\*   kind: "io_error"       a terminal write fails inside process_image (`?`)
\*         "not_found"      !path_obj.exists()
\*         "decode_failed"  image::open is Err
\*         "image"          image::open is Ok, with dimensions dims
\*   zero_ok: whether the image library resizes and encodes an image with a
\*            zero side without panicking (not decided by this repository)
Worlds ==
    { w \in [kind : {"io_error", "not_found", "decode_failed", "image"},
             dims : LoopDims, zero_ok : BOOLEAN, save_ok : BOOLEAN,
             clipboard_ok : BOOLEAN, redraw_ok : BOOLEAN] :
        /\ w.kind # "image" => w.dims = <<300, 200>>
        /\ w.dims # <<1000, 1>> => w.zero_ok
        /\ w.dims # <<300, 200>> \/ w.kind # "image" =>
              w.save_ok /\ w.clipboard_ok
        /\ ~w.save_ok => w.clipboard_ok
        /\ ~w.redraw_ok =>
              w.kind = "image" /\ w.dims = <<300, 200>> /\ w.save_ok /\ w.clipboard_ok }

\* a process_image that returns the clipboard command's failure with `?`
ResizeMutClipboardFatal(width, height, w, checks) ==
    LET d == NewDimensions(width, height, checks)
        sizes == [width |-> width, height |-> height,
                  new_width |-> d.new_width, new_height |-> d.new_height]
    IN  IF ~d.ok
        THEN [outcome |-> "panicked", image |-> NoImage,
              clipboard |-> "untouched", temp_file |-> "none"]
        ELSE IF (d.new_width = 0 \/ d.new_height = 0) /\ ~w.zero_ok
        THEN [outcome |-> "panicked", image |-> sizes,
              clipboard |-> "untouched", temp_file |-> "none"]
        ELSE IF ~w.save_ok
        THEN [outcome |-> "save_failed", image |-> sizes,
              clipboard |-> "untouched", temp_file |-> "none"]
        ELSE IF ~w.clipboard_ok
        THEN [outcome |-> "io_error", image |-> sizes,
              clipboard |-> "failed", temp_file |-> "left"]
        ELSE [outcome |-> "copied", image |-> sizes,
              clipboard |-> "image", temp_file |-> "removed"]

\* process_image from "Calculate new dimensions" on, for a decoded image
Resize(width, height, w, checks) ==
    LET d == NewDimensions(width, height, checks)
        sizes == [width |-> width, height |-> height,
                  new_width |-> d.new_width, new_height |-> d.new_height]
    IN  IF ~d.ok
        THEN [outcome |-> "panicked", image |-> NoImage,
              clipboard |-> "untouched", temp_file |-> "none"]
        ELSE IF (d.new_width = 0 \/ d.new_height = 0) /\ ~w.zero_ok
        THEN [outcome |-> "panicked", image |-> sizes,
              clipboard |-> "untouched", temp_file |-> "none"]
        ELSE IF ~w.save_ok
        THEN [outcome |-> "save_failed", image |-> sizes,
              clipboard |-> "untouched", temp_file |-> "none"]
        ELSE [outcome |-> "copied", image |-> sizes,
              clipboard |-> IF w.clipboard_ok THEN "image" ELSE "failed",
              temp_file |-> "removed"]

\* fn process_image(stdout, path) -> Result<()>
\*   outcome "io_error" is Err; "panicked" unwinds; every other outcome is Ok
ProcessImage(w, checks) ==
    CASE w.kind = "io_error" ->
            [outcome |-> "io_error", image |-> NoImage,
             clipboard |-> "untouched", temp_file |-> "none"]
      [] w.kind = "not_found" ->
            [outcome |-> "not_found", image |-> NoImage,
             clipboard |-> "untouched", temp_file |-> "none"]
      [] w.kind = "decode_failed" ->
            [outcome |-> "decode_failed", image |-> NoImage,
             clipboard |-> "untouched", temp_file |-> "none"]
      [] w.kind = "image" -> Resize(w.dims[1], w.dims[2], w, checks)

\* where run_app stands after process_image(..)? and the redraw that follows
AfterProcess(p, w) ==
    IF p.outcome = "panicked" THEN "panicked"
    ELSE IF p.outcome = "io_error" \/ ~w.redraw_ok THEN "error"
    ELSE "loop"

----------------------------------------------------------------------------
(* run_app *)

NoCall == [called |-> FALSE, path |-> << >>]

\* data: the text of the paste event, when the event is one
Handled(event, c, call) ==
    [event |-> event, c |-> c, data |-> << >>,
     called |-> call.called, path |-> call.path]

Init ==
    /\ input_buffer = << >>
    /\ running = "loop"
    /\ last = Handled("none", "", NoCall)
    /\ proc = [outcome |-> "none", image |-> NoImage,
               clipboard |-> "untouched", temp_file |-> "none"]
    /\ overflow_checks \in BOOLEAN

\* if !event::poll(Duration::from_millis(100))? { continue; }
PollTimeout ==
    /\ running = "loop"
    /\ last' = Handled("Ignore", "", NoCall)
    /\ UNCHANGED <<input_buffer, running, proc, overflow_checks>>

\* event::poll(..)? or event::read()? is Err
TerminalError ==
    /\ running = "loop"
    /\ running' = "error"
    /\ last' = Handled("terminal_error", "", NoCall)
    /\ UNCHANGED <<input_buffer, proc, overflow_checks>>

\* KeyCode::Esc => break
KeyEsc ==
    /\ running = "loop"
    /\ running' = "quit"
    /\ last' = Handled("Esc", "", NoCall)
    /\ UNCHANGED <<input_buffer, proc, overflow_checks>>

\* the control arms placed after the Char arm: Control-c and Control-d are
\* pushed like any character
KeyCtrlCDMutPushed ==
    /\ running = "loop"
    /\ \E c \in {"c", "d"} :
          /\ input_buffer' = Append(input_buffer, c)
          /\ last' = Handled("Ctrl", c, NoCall)
    /\ UNCHANGED <<running, proc, overflow_checks>>

\* KeyCode::Char('c') | KeyCode::Char('d') if modifiers.contains(CONTROL) => break
KeyCtrlCD ==
    /\ running = "loop"
    /\ \E c \in {"c", "d"} :
          /\ running' = "quit"
          /\ last' = Handled("Ctrl", c, NoCall)
    /\ UNCHANGED <<input_buffer, proc, overflow_checks>>

\* an auto-processing test that forgets the extensions
AutoProcessMutNoExtension(c, buffer) == QuoteCheck(c, buffer)

\* the auto-processing test of the Char arm, on the buffer after the push
AutoProcess(c, buffer) == QuoteCheck(c, buffer) /\ HasAutoExtension(PathOf(buffer))

\* KeyCode::Char(c) => { input_buffer.push(c); .. }, with any modifiers
\* that the two arms above do not take
KeyChar ==
    /\ running = "loop"
    /\ \E c \in NextChars(input_buffer) :
          LET pushed == Append(input_buffer, c)
          IN  IF AutoProcess(c, pushed)
              THEN \E w \in Worlds :
                      LET p == ProcessImage(w, overflow_checks)
                      IN  /\ proc' = p
                          /\ running' = AfterProcess(p, w)
                          /\ input_buffer' = IF p.outcome \in {"panicked", "io_error"}
                                             THEN pushed ELSE << >>
                          /\ last' = Handled("Char", c,
                                        [called |-> TRUE, path |-> PathOf(pushed)])
              ELSE /\ input_buffer' = pushed
                   /\ last' = Handled("Char", c, NoCall)
                   /\ UNCHANGED <<running, proc>>
    /\ UNCHANGED overflow_checks

\* an Enter arm with the extension test of the Char arm
KeyEnterMutFiltered ==
    /\ running = "loop"
    /\ IF input_buffer # << >> /\ HasAutoExtension(PathOf(input_buffer))
       THEN \E w \in Worlds :
               LET p == ProcessImage(w, overflow_checks)
               IN  /\ proc' = p
                   /\ running' = AfterProcess(p, w)
                   /\ input_buffer' = IF p.outcome \in {"panicked", "io_error"}
                                      THEN input_buffer ELSE << >>
                   /\ last' = Handled("Enter", "",
                                 [called |-> TRUE, path |-> PathOf(input_buffer)])
       ELSE /\ last' = Handled("Enter", "", NoCall)
            /\ UNCHANGED <<input_buffer, running, proc>>
    /\ UNCHANGED overflow_checks

\* KeyCode::Enter => { if !input_buffer.is_empty() { .. } }
KeyEnter ==
    /\ running = "loop"
    /\ IF input_buffer # << >>
       THEN \E w \in Worlds :
               LET p == ProcessImage(w, overflow_checks)
               IN  /\ proc' = p
                   /\ running' = AfterProcess(p, w)
                   /\ input_buffer' = IF p.outcome \in {"panicked", "io_error"}
                                      THEN input_buffer ELSE << >>
                   /\ last' = Handled("Enter", "",
                                 [called |-> TRUE, path |-> PathOf(input_buffer)])
       ELSE /\ last' = Handled("Enter", "", NoCall)
            /\ UNCHANGED <<input_buffer, running, proc>>
    /\ UNCHANGED overflow_checks

\* a Backspace arm that empties the buffer
KeyBackspaceMutClears ==
    /\ running = "loop"
    /\ input_buffer' = << >>
    /\ last' = Handled("Backspace", "", NoCall)
    /\ UNCHANGED <<running, proc, overflow_checks>>

\* KeyCode::Backspace => { input_buffer.pop(); }
KeyBackspace ==
    /\ running = "loop"
    /\ input_buffer' = IF input_buffer = << >> THEN << >>
                       ELSE SubSeq(input_buffer, 1, Len(input_buffer) - 1)
    /\ last' = Handled("Backspace", "", NoCall)
    /\ UNCHANGED <<running, proc, overflow_checks>>

\* _ => {} : any other key code
KeyOther ==
    /\ running = "loop"
    /\ last' = Handled("Ignore", "", NoCall)
    /\ UNCHANGED <<input_buffer, running, proc, overflow_checks>>

\* a paste arm with the extension test of the Char arm
PasteEventMutFiltered ==
    /\ running = "loop"
    /\ \E data \in Pastes :
          LET path == PathOf(data)
          IN  IF path # << >> /\ HasAutoExtension(path)
              THEN \E w \in Worlds :
                      LET p == ProcessImage(w, overflow_checks)
                      IN  /\ proc' = p
                          /\ running' = AfterProcess(p, w)
                          /\ last' = [Handled("Paste", "",
                                        [called |-> TRUE, path |-> path])
                                      EXCEPT !.data = data]
              ELSE /\ last' = [Handled("Paste", "", NoCall) EXCEPT !.data = data]
                   /\ UNCHANGED <<running, proc>>
    /\ UNCHANGED <<input_buffer, overflow_checks>>

\* a paste arm that clears the buffer after processing, as the key arms do
PasteEventMutClears ==
    /\ running = "loop"
    /\ \E data \in Pastes :
          LET path == PathOf(data)
          IN  IF path # << >>
              THEN \E w \in Worlds :
                      LET p == ProcessImage(w, overflow_checks)
                      IN  /\ proc' = p
                          /\ running' = AfterProcess(p, w)
                          /\ input_buffer' = IF p.outcome \in {"panicked", "io_error"}
                                             THEN input_buffer ELSE << >>
                          /\ last' = [Handled("Paste", "",
                                        [called |-> TRUE, path |-> path])
                                      EXCEPT !.data = data]
              ELSE /\ last' = [Handled("Paste", "", NoCall) EXCEPT !.data = data]
                   /\ UNCHANGED <<input_buffer, running, proc>>
    /\ UNCHANGED overflow_checks

\* Event::Paste(data) => { .. }
PasteEvent ==
    /\ running = "loop"
    /\ \E data \in Pastes :
          LET path == PathOf(data)
          IN  IF path # << >>
              THEN \E w \in Worlds :
                      LET p == ProcessImage(w, overflow_checks)
                      IN  /\ proc' = p
                          /\ running' = AfterProcess(p, w)
                          /\ last' = [Handled("Paste", "",
                                        [called |-> TRUE, path |-> path])
                                      EXCEPT !.data = data]
              ELSE /\ last' = [Handled("Paste", "", NoCall) EXCEPT !.data = data]
                   /\ UNCHANGED <<running, proc>>
    /\ UNCHANGED <<input_buffer, overflow_checks>>

\* evt => { log(..) } : resize, focus and mouse events
OtherEvent ==
    /\ running = "loop"
    /\ last' = Handled("Ignore", "", NoCall)
    /\ UNCHANGED <<input_buffer, running, proc, overflow_checks>>

Next ==
    \/ PollTimeout
    \/ TerminalError
    \/ KeyEsc
    \/ KeyCtrlCD
    \/ KeyChar
    \/ KeyEnter
    \/ KeyBackspace
    \/ KeyOther
    \/ PasteEvent
    \/ OtherEvent

Spec == Init /\ [][Next]_vars

----------------------------------------------------------------------------
(* The dimension calculation on its own: process_image stands after        *)
(* img.dimensions(), with any two sides of Dims, and calculates.           *)

InitPlan ==
    /\ input_buffer = << >>
    /\ running = "processing"
    /\ last = Handled("Enter", "", [called |-> TRUE, path |-> << >>])
    /\ \E width \in Dims, height \in Dims :
          proc = [outcome |-> "decoded",
                  image |-> [width |-> width, height |-> height,
                             new_width |-> 0, new_height |-> 0],
                  clipboard |-> "untouched", temp_file |-> "none"]
    /\ overflow_checks \in BOOLEAN

\* lines 268-286
CalculateNewDimensions ==
    /\ running = "processing"
    /\ proc.outcome = "decoded"
    /\ LET d == NewDimensions(proc.image.width, proc.image.height, overflow_checks)
       IN  proc' = [proc EXCEPT !.outcome = IF d.ok THEN "planned" ELSE "panicked",
                                !.image.new_width = IF d.ok THEN d.new_width ELSE 0,
                                !.image.new_height = IF d.ok THEN d.new_height ELSE 0]
    /\ UNCHANGED <<input_buffer, running, last, overflow_checks>>

NextPlan == CalculateNewDimensions

SpecPlan == InitPlan /\ [][NextPlan]_vars

----------------------------------------------------------------------------
(* Claims about the dimension calculation, under SpecPlan *)

Calculated == proc.outcome \in {"planned", "panicked"}

InBounds(width, height) ==
    /\ MIN_DIMENSION <= Max(width, height)
    /\ Max(width, height) <= MAX_DIMENSION

\* 720 above the bounds, 480 below them
ClampTo(width, height) ==
    IF Max(width, height) > MAX_DIMENSION THEN MAX_DIMENSION ELSE MIN_DIMENSION

\* floor(shorter * target / longer) in exact arithmetic, for shorter <= longer
ExactScale(shorter, target, longer) ==
    WideDiv(WideMul(shorter, target), longer, target)

\* C1: a source size whose longer side is outside [480, 720] is planned to
\* the size whose longer side is the bound (720 above, 480 below) and whose
\* other side is floor(shorter * bound / longer); the width is the longer
\* side when width >= height.
C1_ScaledToBound ==
    LET i == proc.image
        t == ClampTo(i.width, i.height)
    IN  (Calculated /\ ~InBounds(i.width, i.height)) =>
            /\ proc.outcome = "planned"
            /\ IF i.width >= i.height
               THEN /\ i.new_width = t
                    /\ i.new_height = ExactScale(i.height, t, i.width)
               ELSE /\ i.new_height = t
                    /\ i.new_width = ExactScale(i.width, t, i.height)

\* C2: a source size whose longer side is within [480, 720] is planned to
\* itself: neither side is scaled.
C2_ClampIdentity ==
    LET i == proc.image
    IN  (Calculated /\ InBounds(i.width, i.height)) =>
            /\ proc.outcome = "planned"
            /\ i.new_width = i.width
            /\ i.new_height = i.height

C2_Witness ==
    /\ proc.outcome = "planned"
    /\ proc.image.width = 600 /\ proc.image.height = 500
    /\ proc.image.new_width = 600 /\ proc.image.new_height = 500

\* C3: calculating again from a calculated size gives that size back.
C3_Idempotent ==
    LET i == proc.image
    IN  proc.outcome = "planned" =>
            NewDimensions(i.new_width, i.new_height, overflow_checks)
                = [ok |-> TRUE, new_width |-> i.new_width, new_height |-> i.new_height]

C3_Witness ==
    /\ proc.outcome = "planned"
    /\ proc.image.width = 200 /\ proc.image.height = 1200
    /\ proc.image.new_width = 120 /\ proc.image.new_height = 720

\* C4: both sides of every calculated size are positive.
C4_TargetPositive ==
    proc.outcome = "planned" =>
        proc.image.new_width > 0 /\ proc.image.new_height > 0

\* C5: a square source outside [480, 720] is planned to the square of the
\* bound, (480, 480) or (720, 720).
C5_SquareStaysSquare ==
    LET i == proc.image
        t == ClampTo(i.width, i.height)
    IN  (Calculated /\ i.width = i.height /\ ~InBounds(i.width, i.height)) =>
            /\ proc.outcome = "planned"
            /\ i.new_width = t
            /\ i.new_height = t

----------------------------------------------------------------------------
(* Claims about the event loop, under Spec *)

Quotes == {SQ, DQ}

\* the step handles the key Char(c)
Typed(c) == last'.event = "Char" /\ last'.c = c

\* char::to_lowercase, on the letters of the model
Lower(c) ==
    CASE c = "B" -> "b" [] c = "E" -> "e" [] c = "F" -> "f" [] c = "G" -> "g"
      [] c = "I" -> "i" [] c = "J" -> "j" [] c = "N" -> "n" [] c = "P" -> "p"
      [] c = "W" -> "w" [] OTHER -> c

ToLowercase(s) == [i \in 1..Len(s) |-> Lower(s[i])]

\* the image extensions the specification recognizes, in lowercase
RecognizedExtensions ==
    { <<".", "p", "n", "g">>, <<".", "j", "p", "g">>, <<".", "j", "p", "e", "g">>,
      <<".", "g", "i", "f">>, <<".", "w", "e", "b", "p">> }

\* the lowercase form of the path ends in a recognized image extension
IsImagePath(path) == \E e \in RecognizedExtensions : EndsWith(ToLowercase(path), e)

\* C6: from an empty accumulator, typing a quote, a path with a recognized
\* extension and the same quote, one character at a time, submits nothing
\* before the closing quote, and the closing quote submits the path without
\* its quotes, with no confirmation key.
C6_QuoteAutoSubmit ==
    [][ \A q \in Quotes, e \in RecognizedExtensions :
          LET path == <<"/", "a">> \o e
              typed == <<q>> \o path \o <<q>>
          IN  \A k \in 0..(Len(typed) - 1) :
                (input_buffer = SubSeq(typed, 1, k) /\ Typed(typed[k + 1])) =>
                    IF k + 1 < Len(typed)
                    THEN ~last'.called /\ input_buffer' = SubSeq(typed, 1, k + 1)
                    ELSE last'.called /\ last'.path = path ]_vars

C6_Witness ==
    /\ last.event = "Char" /\ last.c = SQ
    /\ last.called
    /\ last.path = <<"/", "a", ".", "p", "n", "g">>
    /\ input_buffer = << >>
    /\ running = "loop"

\* C7: when a typed quote makes the accumulator longer than 2, the path is
\* submitted if and only if the lowercase form of the normalized accumulator
\* ends in .png, .jpg, .jpeg, .gif or .webp.
C7_ExtensionGateIgnoresCase ==
    [][ \A q \in Quotes :
          LET pushed == Append(input_buffer, q)
          IN  (Typed(q) /\ Len(pushed) > 2) =>
                  (last'.called <=> IsImagePath(PathOf(pushed))) ]_vars

\* C8: a typed quote after which the normalized accumulator does not end
\* in a recognized image extension submits nothing and is appended.
C8_NonImageQuoteAppended ==
    [][ \A q \in Quotes :
          LET pushed == Append(input_buffer, q)
          IN  (Typed(q) /\ ~IsImagePath(PathOf(pushed))) =>
                  /\ ~last'.called
                  /\ input_buffer' = pushed
                  /\ running' = running
                  /\ proc' = proc ]_vars

C8_Witness ==
    /\ last.event = "Char" /\ last.c = SQ
    /\ ~last.called
    /\ input_buffer = <<SQ, "f", ".", "t", "x", "t", SQ>>

\* C9: whatever the accumulator holds, Esc, Control-c and Control-d end the
\* loop and submit nothing, and nothing is handled once the loop has ended.
C9_QuitPrecedence ==
    /\ [](running = "loop" => ENABLED KeyEsc /\ ENABLED KeyCtrlCD)
    /\ [][ /\ running = "loop"
           /\ last'.event \in {"Esc", "Ctrl"} =>
                 /\ running' = "quit"
                 /\ ~last'.called
                 /\ proc' = proc
                 /\ input_buffer' = input_buffer ]_vars

C9_Witness ==
    /\ running = "quit"
    /\ last.event = "Ctrl" /\ last.c = "c"
    /\ input_buffer = <<SQ, "/", "a", ".", "W", "E", "B", "P", SQ>>

\* C10: Enter with a non-empty accumulator submits the normalized
\* accumulator, whatever its extension; Enter with an empty accumulator
\* submits nothing and changes nothing.
C10_EnterSubmits ==
    [][ last'.event = "Enter" =>
          IF input_buffer # << >>
          THEN last'.called /\ last'.path = PathOf(input_buffer)
          ELSE /\ ~last'.called
               /\ input_buffer' = input_buffer
               /\ running' = running
               /\ proc' = proc ]_vars

C10_Witness ==
    /\ last.event = "Enter"
    /\ last.called
    /\ last.path = <<"f", ".", "t", "x", "t">>
    /\ input_buffer = << >>
    /\ running = "loop"

\* C11 as stated: every paste event submits its text after trim and
\* unquote, the empty text and the texts of whitespace and quotes included.
C11_EveryPasteSubmits ==
    [][ last'.event = "Paste" =>
          last'.called /\ last'.path = PathOf(last'.data) ]_vars

\* C11 as amended: a paste event submits its text after trim and unquote,
\* with no extension filter and whatever the accumulator holds, if and only
\* if that normalized text is not empty; otherwise it changes nothing.
C11_NonEmptyPasteSubmits ==
    [][ last'.event = "Paste" =>
          IF PathOf(last'.data) # << >>
          THEN last'.called /\ last'.path = PathOf(last'.data)
          ELSE /\ ~last'.called
               /\ input_buffer' = input_buffer
               /\ running' = running
               /\ proc' = proc ]_vars

C11_Witness ==
    /\ last.event = "Paste"
    /\ last.called
    /\ last.data = <<"d", ".", "t", "x", "t">>
    /\ last.path = <<"d", ".", "t", "x", "t">>
    /\ input_buffer = <<SQ, "/", "a">>

\* the text an event submits from: the buffer after the push for a typed
\* character, the buffer for Enter, the pasted text for a paste
SubmittedFrom ==
    CASE last'.event = "Char" -> Append(input_buffer, last'.c)
      [] last'.event = "Paste" -> last'.data
      [] OTHER -> input_buffer

\* whitespace trimmed, then one layer of quotes removed when the first and
\* the last character are the same quote character
OneLayerUnquoted(s) ==
    LET t == Trim(s)
    IN  IF Len(t) >= 2 /\ t[1] \in Quotes /\ t[Len(t)] = t[1]
        THEN SubSeq(t, 2, Len(t) - 1)
        ELSE t

\* C12: every submitted path, by auto-submit, Enter or paste, is the text
\* with its whitespace trimmed and at most one layer of matching quotes
\* removed: a second layer, differing quotes and a quote on one end stay.
C12_OneQuoteLayer ==
    [][ last'.called => last'.path = OneLayerUnquoted(SubmittedFrom) ]_vars

\* C13: after any submission (auto-submit, Enter or paste) the accumulator
\* is empty before the next event is handled.
C13_ResetAfterSubmission ==
    (running = "loop" /\ last.called) => input_buffer = << >>

\* C14: Backspace removes the last character of a non-empty accumulator
\* and nothing else, does nothing to an empty one, and never submits or
\* quits, whatever the shortened accumulator holds.
C14_BackspaceRemovesLast ==
    [][ last'.event = "Backspace" =>
          /\ input_buffer' = IF input_buffer = << >> THEN << >>
                             ELSE SubSeq(input_buffer, 1, Len(input_buffer) - 1)
          /\ ~last'.called
          /\ running' = running
          /\ proc' = proc ]_vars

C14_Witness ==
    /\ last.event = "Backspace"
    /\ input_buffer = <<SQ, "/", "a", ".", "W", "E", "B", "P", SQ>>
    /\ running = "loop"

\* C15: a submitted path that is not an existing file, or not a decodable
\* image, stops processing before the calculation, the resize and the
\* clipboard; the session goes on, and the loop is back in Idle (the
\* accumulator empty).
C15_LoadFailureBackToIdle ==
    (last.called /\ proc.outcome \in {"not_found", "decode_failed"}) =>
        /\ proc.image = NoImage
        /\ proc.clipboard = "untouched"
        /\ proc.temp_file = "none"
        /\ running = "loop"
        /\ input_buffer = << >>

\* C16: when the clipboard copy fails after a successful load, resize and
\* save, processing still removes the temp file, reports success and
\* returns Ok, and the loop goes on as after a successful copy.
C16_ClipboardBestEffort ==
    (last.called /\ proc.clipboard = "failed") =>
        /\ proc.outcome = "copied"
        /\ proc.temp_file = "removed"
        /\ running = "loop"
        /\ last.event # "Paste" => input_buffer = << >>

C16_Witness ==
    /\ last.called
    /\ last.event = "Enter"
    /\ proc.outcome = "copied"
    /\ proc.clipboard = "failed"
    /\ proc.image.new_width = 480 /\ proc.image.new_height = 320
    /\ running = "loop"

\* C17: a typed character that is not a quote never submits, whatever the
\* accumulator holds: it is appended and nothing else changes.
C17_OnlyQuotesSubmit ==
    [][ (last'.event = "Char" /\ last'.c \notin Quotes) =>
          /\ ~last'.called
          /\ input_buffer' = Append(input_buffer, last'.c)
          /\ running' = running
          /\ proc' = proc ]_vars

C17_Witness ==
    /\ last.event = "Char" /\ last.c = "x"
    /\ ~last.called
    /\ input_buffer = <<SQ, "/", "a", ".", "W", "E", "B", "P", SQ, "x">>

----------------------------------------------------------------------------
(* Claims about the arithmetic of the calculation, under SpecPlan *)

\* the side the calculation scales: the height when width > height
ScaledSide ==
    IF proc.image.width > proc.image.height
    THEN proc.image.height ELSE proc.image.width

\* C18: for every size outside [480, 720] the product of the scaled side
\* and the bound stays within u32, so the calculation never fails and the
\* computed side is the exact quotient.
C18_ProductFitsU32 ==
    LET i == proc.image
        t == ClampTo(i.width, i.height)
    IN  (Calculated /\ ~InBounds(i.width, i.height)) =>
            /\ WideMul(ScaledSide, t).hi < LIMB
            /\ proc.outcome = "planned"
            /\ (IF i.width > i.height THEN i.new_height ELSE i.new_width)
                  = ExactScale(ScaledSide, t, Max(i.width, i.height))

----------------------------------------------------------------------------
(* Claims about the event loop, under Spec (continued) *)

\* C19: a paste event leaves the accumulator as it was, submitted or not.
C19_PasteKeepsAccumulator ==
    [][ last'.event = "Paste" => input_buffer' = input_buffer ]_vars

C19_Witness ==
    /\ last.event = "Paste"
    /\ last.called
    /\ running = "loop"
    /\ input_buffer = <<SQ, "/", "a", ".", "p", "n", "g">>

====
